---------------------------- MODULE Spec2Model ----------------------------
(***************************************************************************)
(* A model of wire_skin.py: WireSkin.create_mesh and the VertCap and       *)
(* ProfileConnector objects it drives.                                     *)
(*                                                                         *)
(* Geometry.  Wireframe vertices sit on integer lattice points and every   *)
(* wireframe edge is parallel to a coordinate axis, so that the unit       *)
(* vectors of create_pole_verts are exact integer vectors.  A vector the   *)
(* code normalises is carried as a positive integer multiple of the code's *)
(* vector; every test the code makes on such a vector (zero or not, the    *)
(* sign of a dot product, the order and equality of polar angles, the      *)
(* determinant threshold) is evaluated on the multiple with the scale      *)
(* factor accounted for.  Python's None is the empty tuple.                *)
(*                                                                         *)
(* Indices.  Python lists are 0-based, sequences here are 1-based: the     *)
(* code's poles[0] is poles[1], profile[3] is profile[4], and so on.       *)
(* Wireframe vertex and edge indices are 1-based as well.                  *)
(***************************************************************************)
EXTENDS Integers, Sequences, FiniteSets, Bags, TLC

VARIABLES mesh, kwargs, vert_caps, profile_connectors, crease_layer,
          bm, call, pc, idx, err, out, log

vars == <<mesh, kwargs, vert_caps, profile_connectors, crease_layer,
          bm, call, pc, idx, err, out, log>>

(***************************************************************************)
(* Bounds of the model.                                                    *)
(***************************************************************************)
MaxVerts == 4
MaxEdges == 3
MaxCalls == 2

None == <<>>

(***************************************************************************)
(* Lattice points a wireframe vertex may sit on, in the order the mesh     *)
(* lists them.                                                             *)
(***************************************************************************)
Sites == << <<0, 0, 0>>, <<-1, 0, 0>>, <<0, 1, 0>>,
            <<0, 2, 0>>, <<0, 0, 1>>, <<1, 0, 0>> >>

(***************************************************************************)
(* mathutils.Vector arithmetic on integer triples.                         *)
(***************************************************************************)
Abs(x) == IF x < 0 THEN -x ELSE x
Sgn(x) == IF x < 0 THEN -1 ELSE IF x > 0 THEN 1 ELSE 0
Max3(a, b, c) == IF a >= b /\ a >= c THEN a ELSE IF b >= c THEN b ELSE c
VAdd(a, b) == <<a[1] + b[1], a[2] + b[2], a[3] + b[3]>>
VSub(a, b) == <<a[1] - b[1], a[2] - b[2], a[3] - b[3]>>
VNeg(a) == <<-a[1], -a[2], -a[3]>>
VScale(k, a) == <<k * a[1], k * a[2], k * a[3]>>
Dot(a, b) == a[1] * b[1] + a[2] * b[2] + a[3] * b[3]
Cross(a, b) == <<a[2] * b[3] - a[3] * b[2],
                 a[3] * b[1] - a[1] * b[3],
                 a[1] * b[2] - a[2] * b[1]>>
Zero == <<0, 0, 0>>
AxisParallel(a) ==
  Cardinality({k \in 1..3 : a[k] # 0}) = 1
\* Vector.normalized() of an axis-parallel vector: exact.
Normalized(a) == <<Sgn(a[1]), Sgn(a[2]), Sgn(a[3])>>

RECURSIVE VSum(_)
VSum(s) == IF s = <<>> THEN Zero ELSE VAdd(Head(s), VSum(Tail(s)))

RECURSIVE SumOver(_, _)
SumOver(s, k) ==
  IF s = <<>> THEN 0 ELSE Head(s)[k[1]] * Head(s)[k[2]] + SumOver(Tail(s), k)

Pow4(n) == n * n * n * n


(***************************************************************************)
(* The BMesh the build writes to.  verts.new and faces.new append; a BMesh *)
(* that create_mesh has freed raises ReferenceError on any further use.    *)
(* A vertex is recorded by what it was created as, which (for a fixed      *)
(* wireframe and configuration) fixes its position.                        *)
(***************************************************************************)
NewBMesh(id) ==
  [id |-> id, freed |-> FALSE, verts |-> <<>>, faces |-> <<>>, stamped |-> {}]

Live(b, cap) == cap.bm = b.id /\ ~b.freed

PoleVert(cap, k) == [owner |-> cap.v, kind |-> "pole", edge |-> 0, slot |-> k]
ProfileVert(cap, e, k) ==
  [owner |-> cap.v, kind |-> "profile", edge |-> e, slot |-> k]

(***************************************************************************)
(* VertCap.__init__: the radius options fall back to self.radius, which no *)
(* code path sets, so a missing option raises AttributeError.              *)
(***************************************************************************)
VertCapInitRaises(kw) == ~kw.inside_radius \/ ~kw.outside_radius

NewVertCap(v, bmid) ==
  [v |-> v, bm |-> bmid, input_edge_verts |-> <<>>, poles |-> <<>>,
   normal |-> None, profiles |-> <<>>, edge_profile_map |-> <<>>,
   creased_edges |-> <<>>]

\* VertCap.add_edge_vert
add_edge_vert(cap, e, i) ==
  [cap EXCEPT !.input_edge_verts =
     Append(@, [v |-> mesh.vertices[i], i |-> i, e |-> e])]

input_vert(cap) == mesh.vertices[cap.v]

(***************************************************************************)
(* VertCap.diff_average.  Returns len(diffs) times the code's average.     *)
(***************************************************************************)
diff_average(diffs) == VSum(diffs)

(***************************************************************************)
(* VertCap.least_squares_normal.  nvave is n times the code's vave, so the *)
(* residuals are n times the code's, the covariance sums n^2 times and the *)
(* determinants n^4 times the code's; det_max < 0.00001 is tested with     *)
(* that factor.  The result is a positive multiple of the code's result.   *)
(***************************************************************************)
DetTooSmall(det_max, n) == det_max < (Pow4(n) + 99999) \div 100000

least_squares_normal(nvave, diffs) ==
  LET n  == Len(diffs)
      r  == [k \in 1..n |-> VSub(VScale(n, diffs[k]), nvave)]
      xx == SumOver(r, <<1, 1>>)
      xy == SumOver(r, <<1, 2>>)
      xz == SumOver(r, <<1, 3>>)
      yy == SumOver(r, <<2, 2>>)
      yz == SumOver(r, <<2, 3>>)
      zz == SumOver(r, <<3, 3>>)
      det_x == yy * zz - yz * yz
      det_y == xx * zz - xz * xz
      det_z == xx * yy - xy * xy
      det_max == Max3(Abs(det_x), Abs(det_y), Abs(det_z))
      normal ==
        IF det_max = Abs(det_x)
          THEN VScale(Sgn(det_x),
                      <<det_x, xz * yz - xy * zz, xy * yz - xz * yy>>)
        ELSE IF det_max = Abs(det_y)
          THEN VScale(Sgn(det_y),
                      <<yz * xz - xy * zz, det_y, xy * xz - yz * xx>>)
        ELSE VScale(Sgn(det_z),
                      <<yz * xy - xz * yy, xz * xy - yz * xx, det_z>>)
  IN  IF DetTooSmall(det_max, n) THEN nvave
      ELSE IF Dot(nvave, normal) < 0 THEN VNeg(normal)
      ELSE normal

(***************************************************************************)
(* VertCap.create_pole_verts.  vave.magnitude > 0.0000001 holds exactly    *)
(* when the integer sum of the unit vectors is not zero (its magnitude is  *)
(* then at least 1/n).  Yields the cap, the BMesh and the exception raised *)
(* ("" when none).                                                         *)
(***************************************************************************)
VaveIsLarge(nvave) == nvave # Zero

create_pole_verts(cap, b) ==
  LET evs   == cap.input_edge_verts
      diffs == [k \in 1..Len(evs) |->
                  Normalized(VSub(evs[k].v, input_vert(cap)))]
      nvave == diff_average(diffs)
      nrm   == IF Len(evs) < 3
                 THEN VNeg(nvave)
                 ELSE VNeg(least_squares_normal(nvave, diffs))
      c1    == [cap EXCEPT !.normal = nrm]
      v1    == Len(b.verts) + 1
      b1    == [b EXCEPT !.verts = Append(@, PoleVert(cap, 0))]
      c2    == [c1 EXCEPT !.poles = Append(@, v1)]
      b2    == [b1 EXCEPT !.verts = Append(@, PoleVert(cap, 1))]
      c3    == [c2 EXCEPT !.poles = Append(@, v1 + 1)]
  IN  IF Len(evs) = 0 THEN [cap |-> cap, bm |-> b, err |-> ""]
      ELSE IF ~VaveIsLarge(nvave) THEN [cap |-> cap, bm |-> b, err |-> ""]
      ELSE IF ~Live(b, cap)
        THEN [cap |-> c1, bm |-> b, err |-> "ReferenceError"]
      ELSE IF Len(evs) > 1 THEN [cap |-> c3, bm |-> b2, err |-> ""]
      ELSE [cap |-> c2, bm |-> b1, err |-> ""]

(***************************************************************************)
(* VertCap.reorder_edge_verts.  With N a positive multiple of the unit     *)
(* normal and E the first edge vector, the rows of the code's matrix are   *)
(* the unit vectors along X = (N x E) x N, Y = N x E and N; it is          *)
(* orthonormal, so inverting its transpose gives it back, unless N x E is  *)
(* zero: then two rows are zero and Matrix.invert raises ValueError.       *)
(* The polar angle of an edge vector w is that of the plane point          *)
(* (X.w / |X|, Y.w / |Y|); since |X| = |N| |Y|, it is compared through the *)
(* integer point (X.w, Y.w): stretching one axis by a positive factor      *)
(* keeps half planes, the order of rays and their equality.                *)
(***************************************************************************)
PlanePoint(cap, k) ==
  LET vedge == VSub(cap.input_edge_verts[1].v, input_vert(cap))
      Y     == Cross(cap.normal, vedge)
      X     == Cross(Y, cap.normal)
      w     == VSub(cap.input_edge_verts[k].v, input_vert(cap))
  IN  <<Dot(X, w), Dot(Y, w)>>

\* theta = atan2(p[2], p[1]), plus 2*pi when negative: 0 for [0, pi), 1 for [pi, 2*pi).
ThetaHalf(p) == IF p[2] > 0 \/ (p[2] = 0 /\ p[1] >= 0) THEN 0 ELSE 1

ThetaLess(p, q) ==
  \/ ThetaHalf(p) < ThetaHalf(q)
  \/ /\ ThetaHalf(p) = ThetaHalf(q)
     /\ p # <<0, 0>>
     /\ q # <<0, 0>>
     /\ p[1] * q[2] - p[2] * q[1] > 0
  \/ /\ p = <<0, 0>>
     /\ q # <<0, 0>>
     /\ ThetaHalf(q) = 0
     /\ q[2] > 0

ThetaEq(p, q) == ~ThetaLess(p, q) /\ ~ThetaLess(q, p)

\* sorted(theta_edge_verts): the keys in ascending order, each with the value
\* last stored under it.
RECURSIVE SortedByTheta(_, _)
SortedByTheta(cap, S) ==
  IF S = {} THEN <<>>
  ELSE LET k == CHOOSE i \in S :
                  \A j \in S : ~ThetaLess(PlanePoint(cap, j), PlanePoint(cap, i))
       IN  <<cap.input_edge_verts[k]>> \o SortedByTheta(cap, S \ {k})

\* theta_edge_verts[theta] = ...: a later edge with an equal theta replaces
\* the earlier one under the same key.
ThetaKeys(cap) ==
  LET n == Len(cap.input_edge_verts)
  IN  {i \in 2..n :
         ~\E j \in (i + 1)..n : ThetaEq(PlanePoint(cap, i), PlanePoint(cap, j))}

reorder_edge_verts(cap) ==
  LET evs   == cap.input_edge_verts
      vedge == VSub(evs[1].v, input_vert(cap))
  IN  IF Len(evs) < 2 THEN [cap |-> cap, err |-> ""]
      ELSE IF cap.normal = None THEN [cap |-> cap, err |-> "AttributeError"]
      ELSE IF Cross(cap.normal, vedge) = Zero
        THEN [cap |-> cap, err |-> "ValueError"]
      ELSE [cap |-> [cap EXCEPT !.input_edge_verts =
                       <<evs[1]>> \o SortedByTheta(cap, ThetaKeys(cap))],
            err |-> ""]

(***************************************************************************)
(* VertCap.create_profile.  Raises TypeError at `self.dist * scale` when   *)
(* dist was not supplied (the default is the tuple (0, 25)), TypeError at  *)
(* the blend of the two normals when either is None (the edge vector of    *)
(* two distinct lattice points is longer than 0.000001), ReferenceError at *)
(* verts.new when the cap's BMesh was freed.  Otherwise four vertices are  *)
(* created, in the order v1..v4, and the profile is stored.                *)
(***************************************************************************)
create_profile(cap, b, edge_vert, other_normal) ==
  LET etangent == VSub(edge_vert.v, input_vert(cap))
      base     == Len(b.verts)
      profile  == <<base + 1, base + 2, base + 3, base + 4>>
      b1 == [b EXCEPT !.verts =
               @ \o [k \in 1..4 |-> ProfileVert(cap, edge_vert.e, k - 1)]]
      c1 == [cap EXCEPT !.profiles = Append(@, profile),
                        !.edge_profile_map = (edge_vert.e :> profile) @@ @]
  IN  IF ~kwargs.dist THEN [cap |-> cap, bm |-> b, err |-> "TypeError"]
      ELSE IF /\ Dot(etangent, etangent) > 0
              /\ (cap.normal = None \/ other_normal = None)
        THEN [cap |-> cap, bm |-> b, err |-> "TypeError"]
      ELSE IF ~Live(b, cap)
        THEN [cap |-> cap, bm |-> b, err |-> "ReferenceError"]
      ELSE [cap |-> c1, bm |-> b1, err |-> ""]

\* The loop of create_profiles over the (reordered) edges, from edge k on.
RECURSIVE ProfilesFrom(_, _, _, _)
ProfilesFrom(cap, b, caps, k) ==
  IF k > Len(cap.input_edge_verts) THEN [cap |-> cap, bm |-> b, err |-> ""]
  ELSE LET edge_vert == cap.input_edge_verts[k]
           r == create_profile(cap, b, edge_vert, caps[edge_vert.i].normal)
       IN  IF r.err # "" THEN r ELSE ProfilesFrom(r.cap, r.bm, caps, k + 1)

\* VertCap.create_profiles
create_profiles(cap, b, caps) ==
  LET r == reorder_edge_verts(cap)
  IN  IF Len(cap.input_edge_verts) = 0 THEN [cap |-> cap, bm |-> b, err |-> ""]
      ELSE IF r.err # "" THEN [cap |-> r.cap, bm |-> b, err |-> r.err]
      ELSE ProfilesFrom(r.cap, b, caps, 1)

\* VertCap.get_edge_profile: None stands for the KeyError of a missing key.
get_edge_profile(cap, e) ==
  IF e \in DOMAIN cap.edge_profile_map THEN cap.edge_profile_map[e] ELSE None

(***************************************************************************)
(* VertCap.create_pole_faces: the faces it passes to faces.new, in order.  *)
(***************************************************************************)
PoleFacesOf(cap, profile) ==
  IF Len(cap.input_edge_verts) > 1
    THEN << <<cap.poles[2], profile[4], profile[3]>>,
            <<cap.poles[1], profile[2], profile[1]>> >>
    ELSE [i \in 1..4 |->
            <<cap.poles[1], profile[(i % 4) + 1], profile[i]>>]

RECURSIVE create_pole_faces(_, _)
create_pole_faces(cap, k) ==
  IF k > Len(cap.profiles) THEN <<>>
  ELSE PoleFacesOf(cap, cap.profiles[k]) \o create_pole_faces(cap, k + 1)

(***************************************************************************)
(* VertCap.create_inter_profile_faces: the faces of pair i (0-based) and   *)
(* the two edges it records for creasing.                                  *)
(***************************************************************************)
InterFacesOf(cap, i) ==
  LET num_profiles == Len(cap.profiles)
      this_profile == cap.profiles[i + 1]
      next_profile == cap.profiles[((i + 1) % num_profiles) + 1]
  IN  << <<cap.poles[1], this_profile[1], next_profile[2]>>,
         <<cap.poles[2], next_profile[3], this_profile[4]>>,
         <<this_profile[1], this_profile[4], next_profile[3], next_profile[2]>> >>

InterCreasesOf(cap, i) ==
  LET num_profiles == Len(cap.profiles)
      this_profile == cap.profiles[i + 1]
      next_profile == cap.profiles[((i + 1) % num_profiles) + 1]
  IN  << {this_profile[1], next_profile[2]},
         {next_profile[3], this_profile[4]} >>

RECURSIVE create_inter_profile_faces(_, _)
create_inter_profile_faces(cap, i) ==
  IF Len(cap.input_edge_verts) < 2 \/ i >= Len(cap.profiles) THEN <<>>
  ELSE InterFacesOf(cap, i) \o create_inter_profile_faces(cap, i + 1)

RECURSIVE InterCreases(_, _)
InterCreases(cap, i) ==
  IF Len(cap.input_edge_verts) < 2 \/ i >= Len(cap.profiles) THEN <<>>
  ELSE InterCreasesOf(cap, i) \o InterCreases(cap, i + 1)

\* poles[0] or poles[1] read by the two face builders with too few poles.
PoleIndexError(cap) ==
  /\ cap.profiles # <<>>
  /\ Len(cap.poles) < (IF Len(cap.input_edge_verts) > 1 THEN 2 ELSE 1)

(***************************************************************************)
(* One iteration of WireSkin.create_vert_cap_faces: create_pole_faces then *)
(* create_inter_profile_faces on one cap.                                  *)
(***************************************************************************)
create_vert_cap_faces(cap, b) ==
  LET fs == create_pole_faces(cap, 1) \o create_inter_profile_faces(cap, 0)
      cr == IF kwargs.crease THEN InterCreases(cap, 0) ELSE <<>>
  IN  IF cap.profiles = <<>> THEN [cap |-> cap, bm |-> b, err |-> ""]
      ELSE IF PoleIndexError(cap)
        THEN [cap |-> cap, bm |-> b, err |-> "IndexError"]
      ELSE IF ~Live(b, cap)
        THEN [cap |-> cap, bm |-> b, err |-> "ReferenceError"]
      ELSE [cap |-> [cap EXCEPT !.creased_edges = @ \o cr],
            bm  |-> [b EXCEPT !.faces = @ \o fs],
            err |-> ""]

(***************************************************************************)
(* ProfileConnector.join_profiles.  The two distance comparisons are made  *)
(* on floating-point positions that depend on the width, height, dist and  *)
(* radius values, which a configuration here does not fix; their results   *)
(* enter as min_i (the index of the nearest vertex of loop1) and len1_lt   *)
(* (whether len1 < len2).                                                  *)
(***************************************************************************)
\* join_profiles walking loop1 forwards whatever the inferred direction.
JoinQuad_IgnoresMult(loop0, loop1, min_i, min_i2, mult, i) ==
  LET idx1 == (i + 1) % 4
      idx2 == (min_i2 + i) % 4
      idx3 == (min_i + i) % 4
  IN  <<loop0[i + 1], loop0[idx1 + 1], loop1[idx2 + 1], loop1[idx3 + 1]>>

\* join_profiles not advancing the nearest vertex of loop1 with idx.
JoinQuad_FixedCorner(loop0, loop1, min_i, min_i2, mult, i) ==
  LET idx1 == (i + 1) % 4
      idx2 == (min_i2 + mult * i) % 4
      idx3 == min_i % 4
  IN  <<loop0[i + 1], loop0[idx1 + 1], loop1[idx2 + 1], loop1[idx3 + 1]>>

JoinQuad(loop0, loop1, min_i, min_i2, mult, i) ==
  LET idx1 == (i + 1) % 4
      idx2 == (min_i2 + mult * i) % 4
      idx3 == (min_i + mult * i) % 4
  IN  <<loop0[i + 1], loop0[idx1 + 1], loop1[idx2 + 1], loop1[idx3 + 1]>>

JoinCrease(loop0, loop1, min_i2, mult, i) ==
  {loop0[((i + 1) % 4) + 1], loop1[((min_i2 + mult * i) % 4) + 1]}

Mult(len1_lt) == IF len1_lt THEN 1 ELSE -1

join_profiles(edge, caps, b, min_i, len1_lt) ==
  LET vc0    == caps[mesh.edges[edge][1]]
      vc1    == caps[mesh.edges[edge][2]]
      loop0  == get_edge_profile(vc0, edge)
      loop1  == get_edge_profile(vc1, edge)
      mult   == Mult(len1_lt)
      min_i2 == IF len1_lt THEN (min_i + 1) % 4 ELSE (min_i - 1) % 4
      fs == [i \in 1..4 |-> JoinQuad(loop0, loop1, min_i, min_i2, mult, i - 1)]
      cr == IF kwargs.crease
              THEN [i \in 1..4 |-> JoinCrease(loop0, loop1, min_i2, mult, i - 1)]
              ELSE <<>>
  IN  IF loop0 = None \/ loop1 = None
        THEN [conn |-> [edge |-> edge, bm |-> b.id, creased_edges |-> <<>>],
              bm |-> b, err |-> "KeyError"]
      ELSE [conn |-> [edge |-> edge, bm |-> b.id, creased_edges |-> cr],
            bm |-> [b EXCEPT !.faces = @ \o fs],
            err |-> ""]

(***************************************************************************)
(* The wireframes and configurations a build is started on.  A wireframe   *)
(* takes up to MaxVerts of the Sites as its vertices and up to MaxEdges    *)
(* axis-parallel edges between them, each listed from its lower to its     *)
(* higher vertex index, with no self-loop and no two edges on the same     *)
(* pair of vertices.  A configuration says which keyword arguments were    *)
(* supplied (crease: with a value other than None).                        *)
(***************************************************************************)
RECURSIVE Ascending(_)
Ascending(S) ==
  IF S = {} THEN <<>>
  ELSE LET m == CHOOSE x \in S : \A y \in S : x <= y
       IN  <<m>> \o Ascending(S \ {m})

EdgeKey(e) == e[1] * (Len(Sites) + 1) + e[2]

RECURSIVE EdgeList(_)
EdgeList(E) ==
  IF E = {} THEN <<>>
  ELSE LET m == CHOOSE x \in E : \A y \in E : EdgeKey(x) <= EdgeKey(y)
       IN  <<m>> \o EdgeList(E \ {m})

VertexLists ==
  {[k \in 1..Len(Ascending(S)) |-> Sites[Ascending(S)[k]]] :
     S \in {T \in SUBSET (1..Len(Sites)) : Cardinality(T) <= MaxVerts}}

EdgeSets(vs) ==
  LET pairs == {e \in (1..Len(vs)) \X (1..Len(vs)) :
                  e[1] < e[2] /\ AxisParallel(VSub(vs[e[1]], vs[e[2]]))}
  IN  {E \in SUBSET pairs : Cardinality(E) <= MaxEdges}

Wireframes ==
  UNION {{[vertices |-> vs, edges |-> EdgeList(E)] : E \in EdgeSets(vs)} :
           vs \in VertexLists}

Configs ==
  [inside_radius : BOOLEAN, outside_radius : BOOLEAN,
   dist : BOOLEAN, crease : BOOLEAN]

(***************************************************************************)
(* WireSkin.create_mesh: the phases it runs, in order, and the number of   *)
(* iterations of the loop of each.                                         *)
(***************************************************************************)
\* create_mesh calling create_vert_cap_profiles before create_vert_cap_poles.
Phases_ProfilesFirst ==
  <<"create_vert_caps", "add_edges_to_vert_caps", "create_vert_cap_profiles",
    "create_vert_cap_poles", "create_vert_cap_faces", "connect_profiles",
    "crease_edges", "to_mesh">>

Phases ==
  <<"create_vert_caps", "add_edges_to_vert_caps", "create_vert_cap_poles",
    "create_vert_cap_profiles", "create_vert_cap_faces", "connect_profiles",
    "crease_edges", "to_mesh">>

PhaseLen(phase, ncaps) ==
  CASE phase = "create_vert_caps" -> Len(mesh.vertices)
    [] phase = "add_edges_to_vert_caps" -> Len(mesh.edges)
    [] phase = "create_vert_cap_poles" -> ncaps
    [] phase = "create_vert_cap_profiles" -> ncaps
    [] phase = "create_vert_cap_faces" -> ncaps
    [] phase = "connect_profiles" -> Len(mesh.edges)
    [] OTHER -> 1

PhaseIndex(phase) ==
  IF \E k \in 1..Len(Phases) : Phases[k] = phase
    THEN CHOOSE k \in 1..Len(Phases) : Phases[k] = phase
    ELSE 0

\* The first phase after position k of Phases whose loop has an iteration.
RECURSIVE FirstFrom(_, _)
FirstFrom(k, ncaps) ==
  IF k > Len(Phases) THEN [pc |-> "done", idx |-> 0]
  ELSE IF PhaseLen(Phases[k], ncaps) >= 1 THEN [pc |-> Phases[k], idx |-> 1]
  ELSE FirstFrom(k + 1, ncaps)

\* Where control is after iteration idx of the current phase.
After(ncaps) ==
  IF idx < PhaseLen(pc, ncaps) THEN [pc |-> pc, idx |-> idx + 1]
  ELSE FirstFrom(PhaseIndex(pc) + 1, ncaps)

Goto(p) == pc' = p.pc /\ idx' = p.idx

Raise(type) ==
  /\ pc' = "raised"
  /\ err' = [type |-> type, phase |-> pc]
  /\ UNCHANGED idx

Logged == log' = Append(log, [op |-> pc, i |-> idx])

Init ==
  /\ mesh \in Wireframes
  /\ kwargs \in Configs
  /\ vert_caps = <<>>
  /\ profile_connectors = <<>>
  /\ crease_layer = FALSE
  /\ bm = [NewBMesh(0) EXCEPT !.freed = TRUE]
  /\ call = 0
  /\ pc = "idle"
  /\ idx = 0
  /\ err = [type |-> "", phase |-> ""]
  /\ out = <<>>
  /\ log = <<>>

\* WireSkin.create_mesh up to its first phase: a new BMesh and, when a
\* crease is configured, the crease layer.
CreateMesh ==
  /\ pc \in {"idle", "done"}
  /\ call < MaxCalls
  /\ call' = call + 1
  /\ bm' = NewBMesh(call + 1)
  /\ crease_layer' = (crease_layer \/ kwargs.crease)
  /\ Goto(FirstFrom(1, Len(vert_caps)))
  /\ log' = <<>>
  /\ UNCHANGED <<mesh, kwargs, vert_caps, profile_connectors, err, out>>

\* One iteration of WireSkin.create_vert_caps.
CreateVertCaps ==
  /\ pc = "create_vert_caps"
  /\ Logged
  /\ IF VertCapInitRaises(kwargs)
       THEN /\ Raise("AttributeError")
            /\ UNCHANGED vert_caps
       ELSE /\ vert_caps' = Append(vert_caps, NewVertCap(idx, bm.id))
            /\ Goto(After(Len(vert_caps')))
            /\ UNCHANGED err
  /\ UNCHANGED <<mesh, kwargs, profile_connectors, crease_layer, bm, call, out>>

\* One iteration of the outer loop of WireSkin.add_edges_to_vert_caps.
AddEdgesToVertCaps ==
  /\ pc = "add_edges_to_vert_caps"
  /\ Logged
  /\ LET a  == mesh.edges[idx][1]
         b  == mesh.edges[idx][2]
         c1 == [vert_caps EXCEPT ![a] = add_edge_vert(@, idx, b)]
     IN  vert_caps' = [c1 EXCEPT ![b] = add_edge_vert(@, idx, a)]
  /\ Goto(After(Len(vert_caps)))
  /\ UNCHANGED <<mesh, kwargs, profile_connectors, crease_layer, bm, call,
                 err, out>>

\* A step of a per-cap phase: r is what the cap's method yields.
CapStep(r) ==
  /\ Logged
  /\ vert_caps' = [vert_caps EXCEPT ![idx] = r.cap]
  /\ bm' = r.bm
  /\ IF r.err # "" THEN Raise(r.err)
                   ELSE Goto(After(Len(vert_caps))) /\ UNCHANGED err
  /\ UNCHANGED <<mesh, kwargs, profile_connectors, crease_layer, call, out>>

\* One iteration of WireSkin.create_vert_cap_poles.
CreateVertCapPoles ==
  /\ pc = "create_vert_cap_poles"
  /\ CapStep(create_pole_verts(vert_caps[idx], bm))

\* One iteration of WireSkin.create_vert_cap_profiles.
CreateVertCapProfiles ==
  /\ pc = "create_vert_cap_profiles"
  /\ CapStep(create_profiles(vert_caps[idx], bm, vert_caps))

\* One iteration of WireSkin.create_vert_cap_faces.
CreateVertCapFaces ==
  /\ pc = "create_vert_cap_faces"
  /\ CapStep(create_vert_cap_faces(vert_caps[idx], bm))

\* One iteration of WireSkin.connect_profiles.
ConnectProfiles ==
  /\ pc = "connect_profiles"
  /\ Logged
  /\ \E min_i \in 0..3, len1_lt \in BOOLEAN :
       LET r == join_profiles(idx, vert_caps, bm, min_i, len1_lt)
       IN  /\ profile_connectors' = Append(profile_connectors, r.conn)
           /\ bm' = r.bm
           /\ IF r.err # "" THEN Raise(r.err)
                            ELSE Goto(After(Len(vert_caps))) /\ UNCHANGED err
  /\ UNCHANGED <<mesh, kwargs, vert_caps, crease_layer, call, out>>

(***************************************************************************)
(* WireSkin.crease_edges with VertCap.crease_edges and                     *)
(* ProfileConnector.crease_edges: a cap stamps its recorded edges with the *)
(* configured crease, a connector stamps its own with 1.0.  An edge of a   *)
(* freed BMesh raises ReferenceError when written.                         *)
(***************************************************************************)
RECURSIVE Stamps(_, _)
Stamps(objs, value) ==
  IF objs = <<>> THEN {}
  ELSE {[edge |-> Head(objs).creased_edges[k], value |-> value] :
          k \in 1..Len(Head(objs).creased_edges)}
       \cup Stamps(Tail(objs), value)

StaleCrease(objs, b) ==
  \E k \in 1..Len(objs) :
    objs[k].creased_edges # <<>> /\ ~Live(b, objs[k])

crease_edges(caps, conns, b) ==
  IF ~crease_layer THEN [bm |-> b, err |-> ""]
  ELSE IF StaleCrease(caps, b) \/ StaleCrease(conns, b)
    THEN [bm |-> b, err |-> "ReferenceError"]
  ELSE [bm  |-> [b EXCEPT !.stamped =
                   @ \cup Stamps(caps, "crease") \cup Stamps(conns, "1.0")],
        err |-> ""]

CreaseEdges ==
  /\ pc = "crease_edges"
  /\ Logged
  /\ LET r == crease_edges(vert_caps, profile_connectors, bm)
     IN  /\ bm' = r.bm
         /\ IF r.err # "" THEN Raise(r.err)
                          ELSE Goto(After(Len(vert_caps))) /\ UNCHANGED err
  /\ UNCHANGED <<mesh, kwargs, vert_caps, profile_connectors, crease_layer,
                 call, out>>

\* The end of WireSkin.create_mesh: bm.to_mesh(me), bm.free(), return me.
ToMesh ==
  /\ pc = "to_mesh"
  /\ Logged
  /\ out' = Append(out, [verts |-> bm.verts, faces |-> bm.faces,
                         crease |-> bm.stamped])
  /\ bm' = [bm EXCEPT !.freed = TRUE]
  /\ Goto(After(Len(vert_caps)))
  /\ UNCHANGED <<mesh, kwargs, vert_caps, profile_connectors, crease_layer,
                 call, err>>

Next ==
  \/ CreateMesh
  \/ CreateVertCaps
  \/ AddEdgesToVertCaps
  \/ CreateVertCapPoles
  \/ CreateVertCapProfiles
  \/ CreateVertCapFaces
  \/ ConnectProfiles
  \/ CreaseEdges
  \/ ToMesh

Spec == Init /\ [][Next]_vars

(***************************************************************************)
(* Vocabulary of the properties.                                           *)
(***************************************************************************)
\* The order of phases the specification of create_mesh states.
StatedOrder ==
  <<"create_vert_caps", "add_edges_to_vert_caps", "create_vert_cap_poles",
    "create_vert_cap_profiles", "create_vert_cap_faces", "connect_profiles",
    "crease_edges", "to_mesh">>

StatedRank(op) == CHOOSE k \in 1..Len(StatedOrder) : StatedOrder[k] = op

\* The phase the current call is in, or was in when it raised; past the
\* last one when the call returned.
Position ==
  IF pc = "done" THEN Len(StatedOrder) + 1
  ELSE IF pc = "raised" THEN StatedRank(err.phase)
  ELSE IF pc = "idle" THEN 0
  ELSE StatedRank(pc)

\* The current call has completed the phase: it is past it and did not
\* raise in it.
Completed(phase) == Position > StatedRank(phase)

\* Degree of wireframe vertex v.
Degree(v) ==
  Cardinality({k \in 1..Len(mesh.edges) :
                 mesh.edges[k][1] = v \/ mesh.edges[k][2] = v})

IncidentEdges(v) ==
  {k \in 1..Len(mesh.edges) : mesh.edges[k][1] = v \/ mesh.edges[k][2] = v}

ConfigComplete == kwargs.inside_radius /\ kwargs.outside_radius /\ kwargs.dist

VertsOf(f) == {f[i] : i \in 1..Len(f)}
EdgesOfFace(f) == {{f[i], f[(i % Len(f)) + 1]} : i \in 1..Len(f)}
DirEdgesOfFace(f) == {<<f[i], f[(i % Len(f)) + 1]>> : i \in 1..Len(f)}

\* The vertices a cap created: its poles and its profiles.
CapVerts(cap) ==
  VertsOf(cap.poles) \cup
  UNION {VertsOf(cap.profiles[k]) : k \in 1..Len(cap.profiles)}

\* Faces whose vertices were all created by one cap / by two caps.
CapFaces(cap) == {k \in 1..Len(bm.faces) : VertsOf(bm.faces[k]) \subseteq CapVerts(cap)}
IsConnectorFace(f) == Cardinality({bm.verts[v].owner : v \in VertsOf(f)}) = 2

\* The bag of edges of the faces: each edge as often as faces run along it.
RECURSIVE EdgeBag(_)
EdgeBag(faces) ==
  IF faces = <<>> THEN EmptyBag
  ELSE SetToBag(EdgesOfFace(Head(faces))) (+) EdgeBag(Tail(faces))

Manifold(faces) ==
  LET uses == EdgeBag(faces)
  IN  \A e \in BagToSet(uses) : CopiesIn(e, uses) = 2

(***************************************************************************)
(* C1.  When create_mesh completes, the mesh it returns is closed and      *)
(* manifold: every edge of every returned face (two vertices consecutive   *)
(* in the face) lies on exactly two of the returned faces, the faces of    *)
(* create_pole_faces, create_inter_profile_faces and join_profiles counted *)
(* together.                                                               *)
(***************************************************************************)
C1_ClosedManifold ==
  pc = "done" => Manifold(out[Len(out)].faces)

C1_Witness ==
  /\ pc = "done"
  /\ call = 1
  /\ Len(mesh.edges) = 3
  /\ \E k \in 1..Len(vert_caps) : Len(vert_caps[k].profiles) = 3
  /\ \E k \in 1..Len(vert_caps) : Len(vert_caps[k].profiles) = 1

(***************************************************************************)
(* C2.  After the pole phase every cap with at least one registered edge   *)
(* has exactly one pole, and every cap with at least two has exactly two,  *)
(* whatever its averaged incident direction.                               *)
(***************************************************************************)
C2_PolesPerCap ==
  (call = 1 /\ Completed("create_vert_cap_poles")) =>
    \A k \in 1..Len(vert_caps) :
      /\ Degree(vert_caps[k].v) = 1 => Len(vert_caps[k].poles) = 1
      /\ Degree(vert_caps[k].v) >= 2 => Len(vert_caps[k].poles) = 2

(***************************************************************************)
(* C3.  After the profile phase every cap holds one profile per incident   *)
(* edge and its edge_profile_map has an entry for each of them, also when  *)
(* two incident edges get the same polar angle.                            *)
(***************************************************************************)
C3_ProfilePerEdge ==
  (call = 1 /\ Completed("create_vert_cap_profiles")) =>
    \A k \in 1..Len(vert_caps) :
      /\ Len(vert_caps[k].profiles) = Degree(vert_caps[k].v)
      /\ IncidentEdges(vert_caps[k].v) \subseteq
           DOMAIN vert_caps[k].edge_profile_map

(***************************************************************************)
(* C4.  The wall of join_profiles is wound consistently with the caps at   *)
(* both ends and with itself: no connector quad runs along an edge in the  *)
(* same direction as another face (an intra-cap face or another connector  *)
(* quad), for every outcome of min_i and of the direction inference.       *)
(***************************************************************************)
C4_ConsistentWinding ==
  call = 1 =>
    \A i, j \in 1..Len(bm.faces) :
      (i # j /\ IsConnectorFace(bm.faces[i])) =>
        DirEdgesOfFace(bm.faces[i]) \cap DirEdgesOfFace(bm.faces[j]) = {}

RaisedOnUnsetNormal ==
  /\ pc = "raised"
  /\ err.phase = "create_vert_cap_profiles"
  /\ kwargs.dist
  /\ \/ vert_caps[idx].normal = None
     \/ \E k \in 1..Len(vert_caps[idx].input_edge_verts) :
          vert_caps[vert_caps[idx].input_edge_verts[k].i].normal = None

(***************************************************************************)
(* C5.  A cap whose normal create_pole_verts left unset never aborts the   *)
(* build: neither its own profile step nor that of a neighbour blending    *)
(* with its normal raises.                                                 *)
(***************************************************************************)
C5_DegenerateNeverAborts == call = 1 => ~RaisedOnUnsetNormal

(***************************************************************************)
(* C6.  A second create_mesh on the same WireSkin, wireframe and           *)
(* configuration unchanged, returns the mesh the first call returned.      *)
(***************************************************************************)
C6_SecondBuildSame ==
  (call = 2 /\ pc \in {"done", "raised"}) =>
    (pc = "done" /\ out[2] = out[1])

(***************************************************************************)
(* C7.  With a radius option missing, the build fails, and fails before    *)
(* the first vertex or face is created and before the pole phase.          *)
(***************************************************************************)
C7_MissingRadiusFailsFirst ==
  (call = 1 /\ VertCapInitRaises(kwargs)) =>
    /\ pc # "done"
    /\ bm.verts = <<>>
    /\ bm.faces = <<>>
    /\ pc = "raised" => err.phase = "create_vert_caps"

StatedFaceCount(d) == IF d = 0 THEN 0 ELSE IF d = 1 THEN 4 ELSE 2 * d + 3 * d

(***************************************************************************)
(* C8.  The intra-cap faces of a cap number 0 for degree 0, 4 for degree   *)
(* 1 and 2*d + 3*d for degree d >= 2, and are pairwise distinct.           *)
(***************************************************************************)
C8_FaceCountByDegree ==
  (call = 1 /\ Completed("create_vert_cap_faces")) =>
    \A k \in 1..Len(vert_caps) :
      /\ Cardinality(CapFaces(vert_caps[k])) =
           StatedFaceCount(Degree(vert_caps[k].v))
      /\ \A i, j \in CapFaces(vert_caps[k]) :
           i # j => VertsOf(bm.faces[i]) # VertsOf(bm.faces[j])

Adjacent(loop, a, b) ==
  \E i \in 1..4 : {a, b} = {loop[i], loop[(i % 4) + 1]}

Joined(k) ==
  /\ k <= Len(profile_connectors)
  /\ profile_connectors[k].bm = bm.id
  /\ ~(pc = "raised" /\ err.phase = "connect_profiles" /\ idx = k)

WallOf(k) ==
  LET loop0 == vert_caps[mesh.edges[k][1]].edge_profile_map[k]
      loop1 == vert_caps[mesh.edges[k][2]].edge_profile_map[k]
  IN  {j \in 1..Len(bm.faces) :
         /\ VertsOf(bm.faces[j]) \subseteq VertsOf(loop0) \cup VertsOf(loop1)
         /\ VertsOf(bm.faces[j]) \cap VertsOf(loop0) # {}
         /\ VertsOf(bm.faces[j]) \cap VertsOf(loop1) # {}}

(***************************************************************************)
(* C9.  When the connector phase has ended (by completing or by raising),  *)
(* for every joined edge join_profiles has emitted exactly four            *)
(* quads; each is two cyclically adjacent vertices of loop0 followed by    *)
(* two cyclically adjacent vertices of loop1, and each of the eight        *)
(* profile vertices lies on exactly two of the four.                       *)
(***************************************************************************)
C9_FourQuadWall ==
  \A k \in 1..Len(mesh.edges) :
    (pc \in {"crease_edges", "raised"} /\ Joined(k)) =>
      LET loop0 == vert_caps[mesh.edges[k][1]].edge_profile_map[k]
          loop1 == vert_caps[mesh.edges[k][2]].edge_profile_map[k]
          wall  == WallOf(k)
      IN  /\ Cardinality(wall) = 4
          /\ \A j \in wall :
               /\ Len(bm.faces[j]) = 4
               /\ Adjacent(loop0, bm.faces[j][1], bm.faces[j][2])
               /\ Adjacent(loop1, bm.faces[j][3], bm.faces[j][4])
          /\ \A v \in VertsOf(loop0) \cup VertsOf(loop1) :
               Cardinality({j \in wall : v \in VertsOf(bm.faces[j])}) = 2

\* Three edges joined in one build, one walking loop1 forwards from its
\* third vertex (min_i = 2, mult = 1), another backwards from its second
\* (min_i = 1, mult = -1).
C9_Witness ==
  /\ call = 1
  /\ pc = "crease_edges"
  /\ Len(mesh.edges) = 3
  /\ \A k \in 1..3 : Joined(k)
  /\ \E k, m \in 1..3 :
       LET a0 == vert_caps[mesh.edges[k][1]].edge_profile_map[k]
           a1 == vert_caps[mesh.edges[k][2]].edge_profile_map[k]
           b0 == vert_caps[mesh.edges[m][1]].edge_profile_map[m]
           b1 == vert_caps[mesh.edges[m][2]].edge_profile_map[m]
       IN  /\ k # m
           /\ \E j \in WallOf(k) : bm.faces[j] = <<a0[1], a0[2], a1[4], a1[3]>>
           /\ \E j \in WallOf(m) : bm.faces[j] = <<b0[1], b0[2], b1[1], b1[2]>>

StatedSteps(op) ==
  CASE op = "create_vert_caps" -> Len(mesh.vertices)
    [] op \in {"add_edges_to_vert_caps", "connect_profiles"} -> Len(mesh.edges)
    [] op \in {"create_vert_cap_poles", "create_vert_cap_profiles",
               "create_vert_cap_faces"} -> Len(vert_caps)
    [] OTHER -> 1

StepsBefore(op, j) == Cardinality({i \in 1..(j - 1) : log[i].op = op})

RegisteredOnBoth(k) ==
  LET a == mesh.edges[k][1]
      b == mesh.edges[k][2]
  IN  /\ \E n \in 1..Len(vert_caps[a].input_edge_verts) :
           vert_caps[a].input_edge_verts[n].e = k /\
           vert_caps[a].input_edge_verts[n].i = b
      /\ \E n \in 1..Len(vert_caps[b].input_edge_verts) :
           vert_caps[b].input_edge_verts[n].e = k /\
           vert_caps[b].input_edge_verts[n].i = a

(***************************************************************************)
(* C10.  create_mesh runs its phases in strict global order: the step just *)
(* taken (the last of the log) was taken with every step of every earlier  *)
(* phase already taken (all caps created, all edges registered, all caps   *)
(* through the pole, then the profile, then the face step, all edges       *)
(* joined, and only then the creases stamped), and when the first pole     *)
(* step is taken every edge is on the edge list of both its endpoint caps. *)
(***************************************************************************)
C10_PhaseOrder ==
  /\ log # <<>> =>
       \A q \in 1..(StatedRank(log[Len(log)].op) - 1) :
         StepsBefore(StatedOrder[q], Len(log)) = StatedSteps(StatedOrder[q])
  /\ (pc = "create_vert_cap_poles" /\ idx = 1) =>
       \A k \in 1..Len(mesh.edges) : RegisteredOnBoth(k)

C10_Witness ==
  /\ call = 1
  /\ pc = "done"
  /\ kwargs.crease
  /\ bm.stamped # {}
  /\ Len(mesh.edges) = 3

=============================================================================
